---- MODULE Spec2Model ----
(***************************************************************************)
(* GTK 4 display backend of QEMU: the grab arbiter of ui/gtk4.c and the    *)
(* display-listener callbacks of ui/gtk4-gfx-vc.c and ui/gtk4-gl-area.c.   *)
(*                                                                         *)
(* Every handler is a function from the state it is entered in to the      *)
(* state it returns in.  A handler works on a record w (the "world": the   *)
(* fields a handler can reach) and the action that models it commits the   *)
(* resulting record to the variables.  What a handler makes visible to its *)
(* collaborators (window titles, trace points, guest input events, redraw  *)
(* requests, block signals) is appended to w.obs in program order; obs     *)
(* holds the observations of the last handler only.                        *)
(***************************************************************************)
EXTENDS Integers, Sequences, FiniteSets, TLC

\* ------------------------------------------------------------------ bounds
NumVCs == 2
NumDmaBufs == 2
MaxDim == 2
MaxUpdates == 1

\* ------------------------------------------------------- program constants
NULL == -1
MAX_VCS == 10

VCs == 0 .. (NumVCs - 1)
DmaBufs == 1 .. NumDmaBufs
Dims == 1 .. MaxDim

VARIABLES
    s,            \* GtkDisplayState: owners, last pointer position, actions, notebook
    vc,           \* s->vc[i]: window and the VirtualGfxConsole of console i
    dmabuf,       \* the QemuDmaBuf objects of the guest
    is_absolute,  \* qemu_input_is_absolute()
    dcl_ops,      \* which implementation of the listener callbacks is wired
    gl_block,     \* per console: block signals minus un-block signals
    reg,          \* console registry: terminal chardevs and the nb_vcs counters
    gl_current,   \* the GL context current on the UI thread, NULL when none is
    vte,          \* the terminal widget of a text console and what it typed and sent
    call,         \* the handler that ran last, with its arguments
    obs           \* what that handler made visible, in program order

vars == <<s, vc, dmabuf, is_absolute, dcl_ops, gl_block, reg, gl_current, vte, call, obs>>

\* The fields a handler can reach, entered with an empty observation list.
World ==
    [s |-> s, vc |-> vc, dmabuf |-> dmabuf, is_absolute |-> is_absolute,
     dcl_ops |-> dcl_ops, gl_block |-> gl_block, reg |-> reg,
     gl_current |-> gl_current, vte |-> vte, obs |-> <<>>]

Emit(w, e) == [w EXCEPT !.obs = Append(@, e)]

Commit(w, c) ==
    /\ s' = w.s
    /\ vc' = w.vc
    /\ dmabuf' = w.dmabuf
    /\ is_absolute' = w.is_absolute
    /\ dcl_ops' = w.dcl_ops
    /\ gl_block' = w.gl_block
    /\ reg' = w.reg
    /\ gl_current' = w.gl_current
    /\ vte' = w.vte
    /\ obs' = w.obs
    /\ call' = c

Range(q) == {q[i] : i \in 1 .. Len(q)}

\* Index of the first element of q that satisfies e = q[i], 0 when absent.
IndexOf(q, e) ==
    IF e \in Range(q) THEN CHOOSE i \in 1 .. Len(q) : q[i] = e /\ \A j \in 1 .. (i - 1) : q[j] # e
    ELSE 0

\* ------------------------------------------------------------ construction
\* egl_fb after g_malloc0.
EmptyFb == [texture |-> 0, width |-> 0, height |-> 0, framebuffer |-> FALSE, dmabuf |-> NULL]

\* Capacity of the out FIFO of a terminal widget, scaled down from the 4096
\* bytes of virtual_console_vte_widget_constructed.
FifoCapacity == 3

\* qemu/fifo8.h: a ring of capacity bytes, num of them used from head on.
fifo8_create(capacity) ==
    [data |-> [i \in 0 .. (capacity - 1) |-> 0], capacity |-> capacity, head |-> 0, num |-> 0]

\* The terminal widget after construction: empty FIFO, echo as the chardev
\* had it.  typed counts the bytes the terminal committed, each byte being
\* named by its position in that stream; delivered lists the bytes written to
\* the character backend.
virtual_console_vte_widget_constructed ==
    [out_fifo |-> fifo8_create(FifoCapacity), echo |-> FALSE, typed |-> 0, delivered |-> <<>>]

\* The widget's scale is kept in quarters (VC_SCALE_STEP): 4 is 1.0.  The
\* instance is allocated zeroed and the property has no construct flag, so
\* the scale of a new widget is 0.
\* vc->gfx.ds == NULL: no surface was switched in yet.
NoSurface == [present |-> FALSE, width |-> 0, height |-> 0, placeholder |-> FALSE, texture |-> FALSE]

InitVC(i) ==
    [window |-> FALSE,
     ds |-> NoSurface,
     gls |-> FALSE,
     glupdates |-> 0,
     x |-> 0, y |-> 0, w |-> 0, h |-> 0,
     y0_top |-> FALSE,
     guest_fb |-> EmptyFb,
     scanout_mode |-> FALSE,
     context |-> NULL,
     scale |-> 0]

\* The guest console enumeration: every console found is appended to the
\* notebook and to the console menu in index order.
InitS ==
    [ptr_owner |-> NULL,
     kbd_owner |-> NULL,
     last_set |-> FALSE,
     last_x |-> 0,
     last_y |-> 0,
     grab_input |-> FALSE,
     notebook |-> [i \in 1 .. NumVCs |-> i - 1],
     cur_page |-> 0,
     vc_menu |-> [i \in 1 .. NumVCs |-> i - 1]]

AllowFences(d) == d % 2 = 1

InitDmaBuf(d) ==
    [texture |-> 0,
     width |-> 1 + (d % MaxDim),
     height |-> 1,
     allow_fences |-> AllowFences(d),
     draw_submitted |-> FALSE,
     fence_fd |-> NULL]

\* ------------------------------------------------------- console registry
\* gtk4-vte-vc.c keeps the terminal chardevs in vcs[MAX_VCS] with the global
\* counter nb_vcs; GtkDisplayState counts the consoles it set up in its own
\* nb_vcs (ds_nb_vcs here).  vc_index_max is the highest index of ds->vc[]
\* the session has used, opens counts the gd_vc_open calls.
RegStart(n_guest) ==
    [n_guest |-> n_guest, nb_vcs |-> 0, vcs |-> <<>>, opens |-> 0,
     ds_nb_vcs |-> 0, vc_index_max |-> -1, activated |-> FALSE]

Max(a, b) == IF a >= b THEN a ELSE b

\* for (n_vc = 0;; n_vc++): one graphic console per guest console found.
RECURSIVE gfx_console_loop(_, _)
gfx_console_loop(r, n_vc) ==
    IF n_vc >= r.n_guest THEN r
    ELSE gfx_console_loop([r EXCEPT !.vc_index_max = Max(@, n_vc),
                                    !.ds_nb_vcs = @ + 1], n_vc + 1)

\* for (i = 0; i < nb_vcs; i++): one terminal console per chardev, stored at
\* ds->vc[ds->nb_vcs].
RECURSIVE vte_console_loop(_, _)
vte_console_loop(r, i) ==
    IF i >= r.nb_vcs THEN r
    ELSE vte_console_loop([r EXCEPT !.vc_index_max = Max(@, r.ds_nb_vcs),
                                    !.ds_nb_vcs = @ + 1], i + 1)

on_app_activate(r) ==
    [vte_console_loop(gfx_console_loop(r, 0), 0) EXCEPT !.activated = TRUE]

\* An open that lets the registry take one chardev more than it holds.
gd_vc_open_one_more(w, chr) ==
    LET w1 == [w EXCEPT !.reg.opens = @ + 1]
    IN  IF w1.reg.nb_vcs > MAX_VCS
        THEN Emit(w1, [ev |-> "error_setg", msg |-> "Maximum number of consoles reached"])
        ELSE Emit([w1 EXCEPT !.reg.vcs = Append(@, chr), !.reg.nb_vcs = @ + 1],
                  [ev |-> "be_opened", value |-> FALSE])

gd_vc_open(w, chr) ==
    LET w1 == [w EXCEPT !.reg.opens = @ + 1]
    IN  IF w1.reg.nb_vcs = MAX_VCS
        THEN Emit(w1, [ev |-> "error_setg", msg |-> "Maximum number of consoles reached"])
        ELSE Emit([w1 EXCEPT !.reg.vcs = Append(@, chr), !.reg.nb_vcs = @ + 1],
                  [ev |-> "be_opened", value |-> FALSE])

\* Everything but the registry.
InitDisplay ==
    /\ s = InitS
    /\ vc = [i \in VCs |-> InitVC(i)]
    /\ dmabuf = [d \in DmaBufs |-> InitDmaBuf(d)]
    /\ is_absolute = FALSE
    /\ dcl_ops \in {"gfx_vc", "gl_area"}
    /\ gl_block = [i \in VCs |-> 0]
    /\ gl_current = NULL
    /\ vte = virtual_console_vte_widget_constructed
    /\ call = [op |-> "init"]
    /\ obs = <<>>

\* The session after activation with NumVCs graphic consoles and no terminal.
Init ==
    /\ InitDisplay
    /\ reg = on_app_activate(RegStart(NumVCs))

\* Start-up: the guest has one to NumVCs consoles, no chardev was opened and
\* the application is not activated yet.
InitStartup ==
    /\ InitDisplay
    /\ dcl_ops = "gfx_vc"
    /\ reg \in {RegStart(n) : n \in 1 .. NumVCs}

\* One gd_vc_open more than the registry holds.
MaxOpens == MAX_VCS + 1

VcOpen ==
    /\ reg.opens < MaxOpens
    /\ Commit(gd_vc_open(World, reg.opens + 1), [op |-> "gd_vc_open", chr |-> reg.opens + 1])

AppActivate ==
    /\ ~reg.activated
    /\ Commit([World EXCEPT !.reg = on_app_activate(@)], [op |-> "on_app_activate"])

NextStartup ==
    \/ VcOpen
    \/ AppActivate

SpecStartup == InitStartup /\ [][NextStartup]_vars

\* ------------------------------------------------------------ grab arbiter
\* gtk_notebook_page_num(): position of the console's page, -1 when detached.
PageNum(w, v) == IndexOf(w.s.notebook, v) - 1

gd_vc_find_by_page(w, page) ==
    IF \E v \in VCs : PageNum(w, v) = page
    THEN CHOOSE v \in VCs : PageNum(w, v) = page /\ \A u \in VCs : (PageNum(w, u) = page) => (v <= u)
    ELSE NULL

gd_vc_find_current(w) ==
    IF w.s.cur_page = -1 THEN NULL ELSE gd_vc_find_by_page(w, w.s.cur_page)

\* Titles written by gd_update_caption: the grab hint of the main window and
\* the "+kbd" / "+ptr" marks of every detached window.
gd_update_caption(w) ==
    Emit(w, [ev |-> "caption",
             grab |-> (w.s.ptr_owner # NULL /\ ~w.vc[w.s.ptr_owner].window),
             ptr |-> {v \in VCs : w.vc[v].window /\ v = w.s.ptr_owner},
             kbd |-> {v \in VCs : w.vc[v].window /\ v = w.s.kbd_owner}])

\* An ungrab without the test for an owner.
gd_ungrab_pointer_unguarded(w) ==
    LET v == w.s.ptr_owner
    IN  Emit(gd_update_caption([w EXCEPT !.s.ptr_owner = NULL]),
             [ev |-> "trace_ungrab", vc |-> v, dev |-> "ptr"])

gd_ungrab_pointer(w) ==
    LET v == w.s.ptr_owner
    IN  IF v = NULL THEN w
        ELSE Emit(gd_update_caption([w EXCEPT !.s.ptr_owner = NULL]),
                  [ev |-> "trace_ungrab", vc |-> v, dev |-> "ptr"])

\* A grab that overwrites the owner field without the ungrab of the old owner.
gd_grab_pointer_swap(w, v) ==
    IF w.s.ptr_owner = v THEN w
    ELSE Emit(gd_update_caption([w EXCEPT !.s.ptr_owner = v]),
              [ev |-> "trace_grab", vc |-> v, dev |-> "ptr"])

\* A grab that releases and takes the pointer again for its owner.
gd_grab_pointer_regrab(w, v) ==
    LET w1 == IF w.s.ptr_owner # NULL THEN gd_ungrab_pointer(w) ELSE w
    IN  Emit(gd_update_caption([w1 EXCEPT !.s.ptr_owner = v]),
             [ev |-> "trace_grab", vc |-> v, dev |-> "ptr"])

gd_grab_pointer(w, v) ==
    IF w.s.ptr_owner = v THEN w
    ELSE LET w1 == IF w.s.ptr_owner # NULL THEN gd_ungrab_pointer(w) ELSE w
         IN  Emit(gd_update_caption([w1 EXCEPT !.s.ptr_owner = v]),
                  [ev |-> "trace_grab", vc |-> v, dev |-> "ptr"])

\* A keyboard ungrab that drops the pointer owner with the keyboard owner.
gd_ungrab_keyboard_both(w) ==
    LET v == w.s.kbd_owner
    IN  IF v = NULL THEN w
        ELSE Emit(gd_update_caption([w EXCEPT !.s.kbd_owner = NULL, !.s.ptr_owner = NULL]),
                  [ev |-> "trace_ungrab", vc |-> v, dev |-> "kbd"])

gd_ungrab_keyboard(w) ==
    LET v == w.s.kbd_owner
    IN  IF v = NULL THEN w
        ELSE Emit(gd_update_caption([w EXCEPT !.s.kbd_owner = NULL]),
                  [ev |-> "trace_ungrab", vc |-> v, dev |-> "kbd"])

gd_grab_keyboard(w, v) ==
    IF w.s.kbd_owner = v THEN w
    ELSE LET w1 == IF w.s.kbd_owner # NULL THEN gd_ungrab_keyboard(w) ELSE w
         IN  Emit(gd_update_caption([w1 EXCEPT !.s.kbd_owner = v]),
                  [ev |-> "trace_grab", vc |-> v, dev |-> "kbd"])

\* ---------------------------------------------------------------- notebook
RemoveAt(q, i) == [j \in 1 .. (Len(q) - 1) |-> IF j < i THEN q[j] ELSE q[j + 1]]

InsertAt(q, i, e) ==
    [j \in 1 .. (Len(q) + 1) |-> IF j < i THEN q[j] ELSE IF j = i THEN e ELSE q[j - 1]]

\* switch-page handler.  Every console of the model is a graphic console and
\* the main window is not fullscreen, so the grab-input state is left alone;
\* the handler re-requests the window size of the page shown.
gd_change_page(w, page) ==
    LET v == gd_vc_find_by_page(w, page)
    IN  IF v = NULL THEN w ELSE Emit(w, [ev |-> "update_windowsize", vc |-> v])

\* gtk_notebook_detach_tab(): the page leaves the notebook; when it was the
\* page shown, the next page (else the previous one) is shown and
\* switch-page runs.
notebook_detach_tab(w, v) ==
    LET p  == PageNum(w, v)
        nb == RemoveAt(w.s.notebook, p + 1)
        n  == Len(nb)
    IN  IF p = w.s.cur_page
        THEN LET np == IF n = 0 THEN -1 ELSE IF p < n THEN p ELSE n - 1
                 w1 == [w EXCEPT !.s.notebook = nb, !.s.cur_page = np]
             IN  IF np = -1 THEN w1 ELSE gd_change_page(w1, np)
        ELSE [w EXCEPT !.s.notebook = nb,
                       !.s.cur_page = IF p < @ THEN @ - 1 ELSE @]

\* gtk_notebook_append_page() followed by gtk_notebook_reorder_child(): the
\* page shown stays the same child; the first page of an empty notebook is
\* shown at once.
notebook_append_reorder(w, v, position) ==
    LET n   == Len(w.s.notebook)
        pos == IF position < 0 \/ position > n THEN n ELSE position
        cur == gd_vc_find_current(w)
        w1  == [w EXCEPT !.s.notebook = InsertAt(@, pos + 1, v)]
    IN  IF n = 0 THEN gd_change_page([w1 EXCEPT !.s.cur_page = 0], 0)
        ELSE [w1 EXCEPT !.s.cur_page = PageNum(w1, cur)]

\* g_menu_remove() / g_menu_insert() on the console menu.
g_menu_remove(menu, position) ==
    IF position >= 0 /\ position < Len(menu) THEN RemoveAt(menu, position + 1) ELSE menu

g_menu_insert(menu, position, v) ==
    IF position < 0 \/ position > Len(menu) THEN Append(menu, v)
    ELSE InsertAt(menu, position + 1, v)

\* ------------------------------------------------------- grab handlers
on_grab_input_cb(w) ==
    LET v == gd_vc_find_current(w)
    IN  IF v = NULL THEN w
        ELSE IF ~w.s.grab_input
        THEN gd_grab_pointer(gd_grab_keyboard([w EXCEPT !.s.grab_input = TRUE], v), v)
        ELSE gd_ungrab_pointer(gd_ungrab_keyboard([w EXCEPT !.s.grab_input = FALSE]))

gd_win_grab(w, v) ==
    IF w.s.ptr_owner # NULL THEN gd_ungrab_pointer(w) ELSE gd_grab_pointer(w, v)

\* Runs after the input layer changed the pointer mode.
gd_mouse_mode_change(w) ==
    IF w.is_absolute /\ w.s.ptr_owner # NULL
    THEN IF ~w.vc[w.s.ptr_owner].window
         THEN [w EXCEPT !.s.grab_input = FALSE]
         ELSE gd_ungrab_pointer(w)
    ELSE w

on_untabify_cb(w) ==
    LET v == gd_vc_find_current(w)
    IN  IF v = NULL THEN w
        ELSE IF w.vc[v].window THEN w
        ELSE LET w1 == [w EXCEPT !.s.grab_input = FALSE, !.vc[v].window = TRUE]
                 w2 == notebook_detach_tab(w1, v)
                 w3 == [w2 EXCEPT !.s.vc_menu = g_menu_remove(@, v)]
             IN  gd_update_caption(w3)

gd_tab_window_close(w, v) ==
    LET w1 == notebook_append_reorder(w, v, v)
        w2 == [w1 EXCEPT !.s.vc_menu = g_menu_insert(@, v, v)]
    IN  [w2 EXCEPT !.vc[v].window = FALSE]

\* InputButton of a GDK button number, NULL for the buttons the switch drops.
InputButton(button_nbr) ==
    CASE button_nbr = 1 -> "LEFT"
      [] button_nbr = 2 -> "MIDDLE"
      [] button_nbr = 3 -> "RIGHT"
      [] button_nbr = 8 -> "SIDE"
      [] button_nbr = 9 -> "EXTRA"
      [] OTHER -> "none"

\* A button handler that queues the event and returns without a sync.
gd_button_event_no_sync(w, v, button_nbr, n_presses) ==
    LET btn == InputButton(button_nbr)
    IN  IF btn = "none" \/ n_presses = 2 \/ n_presses = 3 THEN w
        ELSE Emit(w, [ev |-> "queue_btn", con |-> v, btn |-> btn, down |-> (n_presses = 1)])

gd_button_event(w, v, button_nbr, n_presses) ==
    LET w1  == IF button_nbr = 1 /\ n_presses = 1 /\ ~w.is_absolute /\ w.s.ptr_owner # v
               THEN IF ~w.vc[v].window THEN w ELSE gd_grab_pointer(w, v)
               ELSE w
        btn == InputButton(button_nbr)
    IN  IF btn = "none" THEN w1
        ELSE IF n_presses = 2 \/ n_presses = 3 THEN w1
        ELSE Emit(Emit(w1, [ev |-> "queue_btn", con |-> v, btn |-> btn, down |-> (n_presses = 1)]),
                  [ev |-> "sync"])

\* ------------------------------------------------------------ grab actions
\* GDK button numbers offered: one the switch maps and one it drops.
Buttons == {1, 4}

\* n_press values offered: a single click, a multiple click the handler
\* returns on, and one beyond the values the handler tests.
Presses == {1, 2, 4}

GrabInput == Commit(on_grab_input_cb(World), [op |-> "on_grab_input_cb"])

\* The widget of a console receives events while it is the page shown or
\* sits in its own window.
Visible(v) == vc[v].window \/ gd_vc_find_current(World) = v

WinGrab ==
    \E v \in VCs :
        /\ Visible(v)
        /\ Commit(gd_win_grab(World, v), [op |-> "gd_win_grab", vc |-> v])

MouseModeChange ==
    Commit(gd_mouse_mode_change([World EXCEPT !.is_absolute = ~is_absolute]),
           [op |-> "gd_mouse_mode_change"])

Untabify ==
    /\ gd_vc_find_current(World) # NULL
    /\ Commit(on_untabify_cb(World), [op |-> "on_untabify_cb"])

TabWindowClose ==
    \E v \in VCs :
        /\ vc[v].window
        /\ Commit(gd_tab_window_close(World, v), [op |-> "gd_tab_window_close", vc |-> v])

\* The click gesture runs the one handler for both of its signals.
ButtonSignals == {"pressed", "released"}

ButtonEvent(sig) ==
    \E v \in VCs, b \in Buttons, n \in Presses :
        /\ Visible(v)
        /\ Commit(gd_button_event(World, v, b, n),
                  [op |-> "gd_button_event", signal |-> sig, vc |-> v,
                   button |-> b, n_presses |-> n])

ButtonPress == ButtonEvent("pressed")

ButtonRelease == ButtonEvent("released")

NextGrab ==
    \/ GrabInput
    \/ WinGrab
    \/ MouseModeChange
    \/ Untabify
    \/ TabWindowClose
    \/ ButtonPress

\* The grab arbiter never reads the listener table: the registered one is wired.
InitGrab == Init /\ dcl_ops = "gfx_vc"

SpecGrab == InitGrab /\ [][NextGrab]_vars

\* ------------------------------------------------------------------ clicks
\* Both signals of the click gesture, on consoles that are tabbed or
\* detached, in either pointer mode and with or without a grab.
NextClick ==
    \/ ButtonPress
    \/ ButtonRelease
    \/ GrabInput
    \/ MouseModeChange
    \/ Untabify
    \/ TabWindowClose

SpecClick == InitGrab /\ [][NextClick]_vars

\* ---------------------------------------------------------- arbiter calls
\* The four grab functions called on their own, for every console and in
\* every ownership state, over consoles that are tabbed or detached.
GrabPointer ==
    \E v \in VCs : Commit(gd_grab_pointer(World, v), [op |-> "gd_grab_pointer", vc |-> v])

UngrabPointer == Commit(gd_ungrab_pointer(World), [op |-> "gd_ungrab_pointer"])

GrabKeyboard ==
    \E v \in VCs : Commit(gd_grab_keyboard(World, v), [op |-> "gd_grab_keyboard", vc |-> v])

UngrabKeyboard == Commit(gd_ungrab_keyboard(World), [op |-> "gd_ungrab_keyboard"])

NextArbiter ==
    \/ GrabPointer
    \/ UngrabPointer
    \/ GrabKeyboard
    \/ UngrabKeyboard
    \/ Untabify
    \/ TabWindowClose

SpecArbiter == InitGrab /\ [][NextArbiter]_vars

\* ======================================================== scanout pipeline
\* ui/egl-helpers.c
egl_fb_destroy(fb) ==
    IF ~fb.framebuffer THEN fb
    ELSE [fb EXCEPT !.texture = 0, !.width = 0, !.height = 0, !.framebuffer = FALSE]

egl_fb_setup_for_tex(fb, width, height, texture) ==
    [fb EXCEPT !.width = width, !.height = height, !.texture = texture, !.framebuffer = TRUE]

\* Texture name the EGL import gives dma-buf d.
DmaBufTexture(d) == 10 + d

egl_dmabuf_import_texture(w, d, import_ok) ==
    IF w.dmabuf[d].texture # 0 THEN w
    ELSE IF import_ok THEN [w EXCEPT !.dmabuf[d].texture = DmaBufTexture(d)]
    ELSE w

egl_dmabuf_release_texture(w, d) ==
    IF w.dmabuf[d].texture = 0 THEN w ELSE [w EXCEPT !.dmabuf[d].texture = 0]

\* ui/console-gl.c
surface_gl_destroy_texture(surface) ==
    IF ~surface.present \/ ~surface.texture THEN surface ELSE [surface EXCEPT !.texture = FALSE]

surface_gl_create_texture(surface) == [surface EXCEPT !.texture = TRUE]

\* GL contexts are named after their console: c is the context the guest
\* device created for console c (vc->gfx.context), AreaContext(c) the one of
\* its GtkGLArea.
AreaContext(c) == NumVCs + c

\* gdk_gl_context_make_current returns at once when handed NULL.
gdk_gl_context_make_current(w, ctx) ==
    IF ctx = NULL THEN w ELSE [w EXCEPT !.gl_current = ctx]

\* A call of surface_gl_update_texture, surface_gl_destroy_texture or
\* surface_gl_create_texture that reaches GL for console c, with the context
\* current at that moment.
GlTextureOp(w, c, what) ==
    Emit(w, [ev |-> "gl_texture_op", op |-> what, vc |-> c, current |-> w.gl_current])

\* surface_gl_destroy_texture does nothing for a surface without a texture.
GlDestroyTexture(w, c, surface) ==
    IF ~surface.present \/ ~surface.texture THEN w ELSE GlTextureOp(w, c, "destroy")

\* ui/console.c: con->gl_block counts the block signals not yet taken back.
graphic_hw_gl_block(w, c, block) ==
    Emit([w EXCEPT !.gl_block[c] = IF block THEN @ + 1 ELSE @ - 1],
         [ev |-> "gl_block", con |-> c, block |-> block])

gd_update_windowsize(w, c) == Emit(w, [ev |-> "update_windowsize", vc |-> c])

queue_draw(w, c) == Emit(w, [ev |-> "queue_draw", vc |-> c])

\* ----------------------------------------------------------- gtk4-gfx-vc.c
\* A mode switch that keeps the guest frame buffer when scanout ends.
gtk_gl_area_set_scanout_mode_keep_fb(w, c, scanout) ==
    IF w.vc[c].scanout_mode = scanout THEN w
    ELSE [w EXCEPT !.vc[c].scanout_mode = scanout]

gtk_gl_area_set_scanout_mode(w, c, scanout) ==
    IF w.vc[c].scanout_mode = scanout THEN w
    ELSE LET w1 == [w EXCEPT !.vc[c].scanout_mode = scanout]
         IN  IF scanout THEN w1
             ELSE LET w2 == Emit([w1 EXCEPT !.vc[c].guest_fb = egl_fb_destroy(@)],
                                 [ev |-> "egl_fb_destroy", vc |-> c])
                  IN  IF w2.vc[c].ds.present
                      THEN LET w3 == GlTextureOp(GlDestroyTexture(w2, c, w2.vc[c].ds), c, "create")
                           IN  [w3 EXCEPT !.vc[c].ds =
                                    surface_gl_create_texture(surface_gl_destroy_texture(@))]
                      ELSE w2

gd_gl_area_scanout_disable(w, c) == gtk_gl_area_set_scanout_mode(w, c, FALSE)

\* A scanout declaration that does not test the region height.
gd_gl_area_scanout_texture_no_h(w, c, backing_id, backing_y_0_top, backing_width, backing_height, x, y, rw, rh) ==
    LET w1 == [w EXCEPT !.vc[c].x = x, !.vc[c].y = y, !.vc[c].w = rw, !.vc[c].h = rh,
                        !.vc[c].y0_top = backing_y_0_top]
    IN  IF backing_id = 0 \/ rw = 0
        THEN gtk_gl_area_set_scanout_mode(w1, c, FALSE)
        ELSE LET w2 == gtk_gl_area_set_scanout_mode(w1, c, TRUE)
             IN  [w2 EXCEPT !.vc[c].guest_fb =
                      egl_fb_setup_for_tex(@, backing_width, backing_height, backing_id)]

gd_gl_area_scanout_texture(w, c, backing_id, backing_y_0_top, backing_width, backing_height, x, y, rw, rh) ==
    LET w1 == [w EXCEPT !.vc[c].x = x, !.vc[c].y = y, !.vc[c].w = rw, !.vc[c].h = rh,
                        !.vc[c].y0_top = backing_y_0_top]
    IN  IF backing_id = 0 \/ w1.vc[c].w = 0 \/ w1.vc[c].h = 0
        THEN gtk_gl_area_set_scanout_mode(w1, c, FALSE)
        ELSE LET w2 == gtk_gl_area_set_scanout_mode(w1, c, TRUE)
             IN  [w2 EXCEPT !.vc[c].guest_fb =
                      egl_fb_setup_for_tex(@, backing_width, backing_height, backing_id)]

\* A dma-buf scanout that goes on with the texture name 0 of a failed import.
gd_gl_area_scanout_dmabuf_unchecked(w, c, d, import_ok) ==
    LET w1 == egl_dmabuf_import_texture(w, d, import_ok)
        w2 == gd_gl_area_scanout_texture(w1, c, w1.dmabuf[d].texture, FALSE,
                                         w1.dmabuf[d].width, w1.dmabuf[d].height,
                                         0, 0, w1.dmabuf[d].width, w1.dmabuf[d].height)
    IN  IF w2.dmabuf[d].allow_fences
        THEN [w2 EXCEPT !.vc[c].guest_fb.dmabuf = d]
        ELSE w2

gd_gl_area_scanout_dmabuf(w, c, d, import_ok) ==
    LET w1 == egl_dmabuf_import_texture(w, d, import_ok)
    IN  IF w1.dmabuf[d].texture = 0 THEN w1
        ELSE LET w2 == gd_gl_area_scanout_texture(w1, c, w1.dmabuf[d].texture, FALSE,
                                                  w1.dmabuf[d].width, w1.dmabuf[d].height,
                                                  0, 0, w1.dmabuf[d].width, w1.dmabuf[d].height)
             IN  IF w2.dmabuf[d].allow_fences
                 THEN [w2 EXCEPT !.vc[c].guest_fb.dmabuf = d]
                 ELSE w2

\* The callback in the listener table: it logs and returns.
gd_gl_area_scanout_flush(w, c) == w

\* A tick that requests the redraw and keeps the counter.
gd_dpy_refresh_keep_count(w, c) ==
    IF w.vc[c].glupdates # 0 THEN queue_draw(w, c) ELSE w

gd_dpy_refresh(w, c) ==
    IF w.vc[c].glupdates # 0
    THEN queue_draw([w EXCEPT !.vc[c].glupdates = 0], c)
    ELSE w

gd_dpy_gfx_update(w, c) ==
    LET w1 == GlTextureOp(gdk_gl_context_make_current(w, w.vc[c].context), c, "update")
    IN  [w1 EXCEPT !.vc[c].glupdates = @ + 1]

gd_dpy_gfx_switch(w, c, surface) ==
    LET old_surface == w.vc[c].ds
        w1 == [GlDestroyTexture(w, c, old_surface) EXCEPT !.vc[c].ds = surface]
    IN  IF surface.placeholder /\ c # 0
        THEN [w1 EXCEPT !.vc[c].gls = FALSE]
        ELSE LET w2 == IF ~w1.vc[c].gls
                       THEN [w1 EXCEPT !.vc[c].gls = TRUE]
                       ELSE IF /\ old_surface.present
                               /\ \/ old_surface.width # surface.width
                                  \/ old_surface.height # surface.height
                       THEN gd_update_windowsize(w1, c)
                       ELSE w1
             IN  [GlTextureOp(w2, c, "create") EXCEPT !.vc[c].ds = surface_gl_create_texture(@)]

gd_gl_release_dmabuf(w, d) == egl_dmabuf_release_texture(w, d)

\* The widget paints the texture of the display surface.
virtual_console_gfx_widget_snapshot(w, c) ==
    IF ~w.vc[c].ds.present THEN w
    ELSE Emit(w, [ev |-> "append_texture", from |-> "ds"])

\* ----------------------------------------------------------- gtk4-gl-area.c
glarea_set_scanout_mode(w, c, scanout) ==
    IF w.vc[c].scanout_mode = scanout THEN w
    ELSE LET w1 == [w EXCEPT !.vc[c].scanout_mode = scanout]
         IN  IF scanout THEN w1
             ELSE Emit([w1 EXCEPT !.vc[c].guest_fb = egl_fb_destroy(@)],
                       [ev |-> "egl_fb_destroy", vc |-> c])

glarea_refresh(w, c) ==
    IF w.vc[c].glupdates # 0
    THEN queue_draw(glarea_set_scanout_mode([w EXCEPT !.vc[c].glupdates = 0], c, FALSE), c)
    ELSE w

glarea_switch(w, c, surface) ==
    LET old     == w.vc[c].ds
        resized == ~(old.present /\ old.width = surface.width /\ old.height = surface.height)
        new     == IF w.vc[c].gls THEN surface_gl_create_texture(surface) ELSE surface
        w0      == IF w.vc[c].gls
                   THEN GlTextureOp(GlDestroyTexture(w, c, old), c, "create")
                   ELSE w
        w1      == [w0 EXCEPT !.vc[c].ds = new]
    IN  IF resized THEN gd_update_windowsize(w1, c) ELSE w1

glarea_scanout_texture(w, c, backing_id, backing_y_0_top, backing_width, backing_height, x, y, rw, rh) ==
    LET w0 == [w EXCEPT !.vc[c].x = x, !.vc[c].y = y, !.vc[c].w = rw, !.vc[c].h = rh,
                        !.vc[c].y0_top = backing_y_0_top]
        w1 == gdk_gl_context_make_current(w0, AreaContext(c))
    IN  IF backing_id = 0 \/ w1.vc[c].w = 0 \/ w1.vc[c].h = 0
        THEN glarea_set_scanout_mode(w1, c, FALSE)
        ELSE LET w2 == glarea_set_scanout_mode(w1, c, TRUE)
             IN  [w2 EXCEPT !.vc[c].guest_fb =
                      egl_fb_setup_for_tex(@, backing_width, backing_height, backing_id)]

glarea_scanout_disable(w, c) == glarea_set_scanout_mode(w, c, FALSE)

glarea_scanout_flush(w, c) ==
    LET d  == w.vc[c].guest_fb.dmabuf
        w1 == IF d # NULL /\ ~w.dmabuf[d].draw_submitted
              THEN [graphic_hw_gl_block(w, c, TRUE) EXCEPT !.dmabuf[d].draw_submitted = TRUE]
              ELSE w
    IN  queue_draw(w1, c)

glarea_scanout_dmabuf(w, c, d, import_ok) ==
    LET w1 == egl_dmabuf_import_texture(gdk_gl_context_make_current(w, AreaContext(c)),
                                        d, import_ok)
    IN  IF w1.dmabuf[d].texture = 0 THEN w1
        ELSE LET w2 == glarea_scanout_texture(w1, c, w1.dmabuf[d].texture, FALSE,
                                              w1.dmabuf[d].width, w1.dmabuf[d].height,
                                              0, 0, w1.dmabuf[d].width, w1.dmabuf[d].height)
             IN  IF w2.dmabuf[d].allow_fences
                 THEN [w2 EXCEPT !.vc[c].guest_fb.dmabuf = d]
                 ELSE w2

\* --------------------------------------------------------- scanout actions
\* What the guest hands over: surfaces, texture names, regions.
\* The smallest surface, a wider one and a taller one.
SurfaceDims == {<<1, 1>>, <<MaxDim, 1>>, <<1, MaxDim>>}

\* Guest surfaces, and the placeholder a console without a display shows.
Surfaces ==
    {[present |-> TRUE, width |-> d[1], height |-> d[2], placeholder |-> FALSE, texture |-> FALSE] :
        d \in SurfaceDims}
    \cup {[present |-> TRUE, width |-> 1, height |-> 1, placeholder |-> TRUE, texture |-> FALSE]}

TexIds == {0, 7}
BackingDims == {MaxDim}
RegionDims == {0, MaxDim}

\* A run follows the display listener of one console: the callbacks of a
\* console touch that console only, the other consoles stay as constructed.
\* Console 0 is the one the placeholder test singles out; the other consoles
\* run the same code, the last one stands for them.
ScanoutVCs == {0, NumVCs - 1}

Driven(c) == c \in ScanoutVCs /\ \A u \in VCs \ {c} : vc[u] = InitVC(u)

GfxSwitch ==
    \E c \in VCs, surface \in Surfaces :
        /\ Driven(c)
        /\ Commit(IF dcl_ops = "gfx_vc" THEN gd_dpy_gfx_switch(World, c, surface)
               ELSE glarea_switch(World, c, surface),
               [op |-> "switch", vc |-> c])

\* A scanout declaration with a square backing texture of a size in bs and a
\* region at (0, 0) with sides in rs.
ScanoutTextureFrom(bs, rs) ==
    \E c \in VCs, id \in TexIds, b \in bs, rw \in rs, rh \in rs :
        /\ Driven(c)
        /\ Commit(IF dcl_ops = "gfx_vc"
               THEN gd_gl_area_scanout_texture(World, c, id, TRUE, b, b, 0, 0, rw, rh)
               ELSE glarea_scanout_texture(World, c, id, TRUE, b, b, 0, 0, rw, rh),
               [op |-> "scanout_texture", vc |-> c, backing_id |-> id,
                backing_width |-> b, backing_height |-> b, w |-> rw, h |-> rh])

ScanoutTexture == ScanoutTextureFrom(BackingDims, RegionDims)

ScanoutDisable ==
    \E c \in VCs :
        /\ Driven(c)
        /\ Commit(IF dcl_ops = "gfx_vc" THEN gd_gl_area_scanout_disable(World, c)
               ELSE glarea_scanout_disable(World, c),
               [op |-> "scanout_disable", vc |-> c])

ScanoutDmaBuf ==
    \E c \in VCs, d \in DmaBufs, import_ok \in BOOLEAN :
        /\ Driven(c)
        /\ Commit(IF dcl_ops = "gfx_vc" THEN gd_gl_area_scanout_dmabuf(World, c, d, import_ok)
               ELSE glarea_scanout_dmabuf(World, c, d, import_ok),
               [op |-> "scanout_dmabuf", vc |-> c, dmabuf |-> d])

ScanoutFlush ==
    \E c \in VCs :
        /\ Driven(c)
        /\ Commit(IF dcl_ops = "gfx_vc" THEN gd_gl_area_scanout_flush(World, c)
               ELSE glarea_scanout_flush(World, c),
               [op |-> "scanout_flush", vc |-> c])

ReleaseDmaBuf ==
    \E d \in DmaBufs :
        Commit(gd_gl_release_dmabuf(World, d), [op |-> "release_dmabuf", dmabuf |-> d])

\* An update of a console that has recorded fewer than n since the last tick.
GfxUpdateBelow(n) ==
    \E c \in VCs :
        /\ Driven(c)
        /\ vc[c].ds.present
        /\ vc[c].glupdates < n
        /\ Commit(gd_dpy_gfx_update(World, c), [op |-> "gfx_update", vc |-> c])

GfxUpdate == GfxUpdateBelow(MaxUpdates)

\* The call record keeps the value of glupdates the tick found.
Refresh ==
    \E c \in VCs :
        /\ Driven(c)
        /\ Commit(IF dcl_ops = "gfx_vc" THEN gd_dpy_refresh(World, c) ELSE glarea_refresh(World, c),
               [op |-> "refresh", vc |-> c, glupdates |-> vc[c].glupdates])

Snapshot ==
    \E c \in VCs :
        /\ Driven(c)
        /\ vc[c].ds.present
        /\ Commit(virtual_console_gfx_widget_snapshot(World, c), [op |-> "snapshot", vc |-> c])

NextScanout ==
    \/ GfxSwitch
    \/ ScanoutTexture
    \/ ScanoutDisable
    \/ ScanoutDmaBuf
    \/ ScanoutFlush
    \/ ReleaseDmaBuf
    \/ GfxUpdate
    \/ Refresh
    \/ Snapshot

SpecScanout == Init /\ [][NextScanout]_vars

\* ============================================================ input router
\* int is 32 bits wide and the build wraps on overflow (-fwrapv).
INT_MAX == 2147483647
INT_MIN == -2147483647 - 1

Sub32(a, b) ==
    IF a >= 0 /\ b < 0 /\ a > INT_MAX + b THEN (a - INT_MAX - 1) + (INT_MIN - b)
    ELSE IF a < 0 /\ b > 0 /\ a < INT_MIN + b THEN ((a - INT_MIN) + (INT_MAX - b)) + 1
    ELSE a - b

\* Conversion of a real to int: the fraction is dropped (towards zero).
TruncDiv(a, b) == IF a >= 0 THEN a \div b ELSE -((-a) \div b)

\* What the conversion of an infinity or a NaN to int can give: the value is
\* not defined by the language, builds give INT_MIN, 0 or INT_MAX.
UBInts == {INT_MIN, 0, INT_MAX}

\* (int)(surface_width * scale), scale in quarters.
ScaledSize(size, scale) == TruncDiv(size * scale, 4)

\* Letterbox margin of a window of ww pixels around fbw scaled pixels.
Margin(ww, fbw) == IF ww > fbw THEN (ww - fbw) \div 2 ELSE 0

\* ((int)pointer - margin) / scale * ws stored to an int; with scale 0 the
\* quotient is an infinity or a NaN and ub is what its conversion gives.
ToGuest(pointer, margin, scale, ws, ub) ==
    IF scale = 0 THEN ub ELSE TruncDiv((pointer - margin) * 4 * ws, scale)

\* gdk_monitor_get_geometry() of the one monitor.
MonitorGeometry == [x |-> 0, y |-> 0, width |-> 8, height |-> 8]

\* gdk_surface_get_width() / gdk_surface_get_height() of the window.
WindowSize == 8

\* A motion handler that takes the X delta against the last Y position.
gd_motion_event_stale_last(w, v, pointer_x, pointer_y, ws, ub) ==
    LET ds  == w.vc[v].ds
        fbw == ScaledSize(ds.width, w.vc[v].scale)
        fbh == ScaledSize(ds.height, w.vc[v].scale)
        x   == ToGuest(pointer_x, Margin(WindowSize, fbw), w.vc[v].scale, ws, ub)
        y   == ToGuest(pointer_y, Margin(WindowSize, fbh), w.vc[v].scale, ws, ub)
        g   == MonitorGeometry
        w1  == IF w.is_absolute
               THEN Emit(Emit(Emit(w,
                        [ev |-> "queue_abs", con |-> v, axis |-> "X", value |-> x,
                         min |-> 0, max |-> ds.width]),
                        [ev |-> "queue_abs", con |-> v, axis |-> "Y", value |-> y,
                         min |-> 0, max |-> ds.height]),
                        [ev |-> "sync"])
               ELSE IF w.s.last_set /\ w.s.ptr_owner = v
               THEN Emit(Emit(Emit(w,
                        [ev |-> "queue_rel", con |-> v, axis |-> "X",
                         value |-> Sub32(x, w.s.last_y)]),
                        [ev |-> "queue_rel", con |-> v, axis |-> "Y",
                         value |-> Sub32(y, w.s.last_y)]),
                        [ev |-> "sync"])
               ELSE w
        w2  == [w1 EXCEPT !.s.last_x = x, !.s.last_y = y, !.s.last_set = TRUE]
    IN  IF ~ds.present THEN w
        ELSE IF w.is_absolute /\ (x < 0 \/ y < 0 \/ x >= ds.width \/ y >= ds.height) THEN w
        ELSE IF /\ ~w2.is_absolute
                /\ w2.s.ptr_owner = v
                /\ \/ pointer_x <= g.x
                   \/ pointer_x - g.x >= g.width - 1
                   \/ pointer_y <= g.y
                   \/ pointer_y - g.y >= g.height - 1
        THEN [w2 EXCEPT !.s.last_set = FALSE]
        ELSE w2

\* A motion handler whose bound test lets x = width through.
gd_motion_event_width_inclusive(w, v, pointer_x, pointer_y, ws, ub) ==
    LET ds  == w.vc[v].ds
        fbw == ScaledSize(ds.width, w.vc[v].scale)
        fbh == ScaledSize(ds.height, w.vc[v].scale)
        x   == ToGuest(pointer_x, Margin(WindowSize, fbw), w.vc[v].scale, ws, ub)
        y   == ToGuest(pointer_y, Margin(WindowSize, fbh), w.vc[v].scale, ws, ub)
        g   == MonitorGeometry
        w1  == IF w.is_absolute
               THEN Emit(Emit(Emit(w,
                        [ev |-> "queue_abs", con |-> v, axis |-> "X", value |-> x,
                         min |-> 0, max |-> ds.width]),
                        [ev |-> "queue_abs", con |-> v, axis |-> "Y", value |-> y,
                         min |-> 0, max |-> ds.height]),
                        [ev |-> "sync"])
               ELSE IF w.s.last_set /\ w.s.ptr_owner = v
               THEN Emit(Emit(Emit(w,
                        [ev |-> "queue_rel", con |-> v, axis |-> "X",
                         value |-> Sub32(x, w.s.last_x)]),
                        [ev |-> "queue_rel", con |-> v, axis |-> "Y",
                         value |-> Sub32(y, w.s.last_y)]),
                        [ev |-> "sync"])
               ELSE w
        w2  == [w1 EXCEPT !.s.last_x = x, !.s.last_y = y, !.s.last_set = TRUE]
    IN  IF ~ds.present THEN w
        ELSE IF w.is_absolute /\ (x < 0 \/ y < 0 \/ x > ds.width \/ y >= ds.height) THEN w
        ELSE IF /\ ~w2.is_absolute
                /\ w2.s.ptr_owner = v
                /\ \/ pointer_x <= g.x
                   \/ pointer_x - g.x >= g.width - 1
                   \/ pointer_y <= g.y
                   \/ pointer_y - g.y >= g.height - 1
        THEN [w2 EXCEPT !.s.last_set = FALSE]
        ELSE w2

\* A motion handler that emits relative events without asking who owns the
\* pointer.
gd_motion_event_any_console(w, v, pointer_x, pointer_y, ws, ub) ==
    LET ds  == w.vc[v].ds
        fbw == ScaledSize(ds.width, w.vc[v].scale)
        fbh == ScaledSize(ds.height, w.vc[v].scale)
        x   == ToGuest(pointer_x, Margin(WindowSize, fbw), w.vc[v].scale, ws, ub)
        y   == ToGuest(pointer_y, Margin(WindowSize, fbh), w.vc[v].scale, ws, ub)
        g   == MonitorGeometry
        w1  == IF w.is_absolute
               THEN Emit(Emit(Emit(w,
                        [ev |-> "queue_abs", con |-> v, axis |-> "X", value |-> x,
                         min |-> 0, max |-> ds.width]),
                        [ev |-> "queue_abs", con |-> v, axis |-> "Y", value |-> y,
                         min |-> 0, max |-> ds.height]),
                        [ev |-> "sync"])
               ELSE IF w.s.last_set
               THEN Emit(Emit(Emit(w,
                        [ev |-> "queue_rel", con |-> v, axis |-> "X",
                         value |-> Sub32(x, w.s.last_x)]),
                        [ev |-> "queue_rel", con |-> v, axis |-> "Y",
                         value |-> Sub32(y, w.s.last_y)]),
                        [ev |-> "sync"])
               ELSE w
        w2  == [w1 EXCEPT !.s.last_x = x, !.s.last_y = y, !.s.last_set = TRUE]
    IN  IF ~ds.present THEN w
        ELSE IF w.is_absolute /\ (x < 0 \/ y < 0 \/ x >= ds.width \/ y >= ds.height) THEN w
        ELSE IF /\ ~w2.is_absolute
                /\ w2.s.ptr_owner = v
                /\ \/ pointer_x <= g.x
                   \/ pointer_x - g.x >= g.width - 1
                   \/ pointer_y <= g.y
                   \/ pointer_y - g.y >= g.height - 1
        THEN [w2 EXCEPT !.s.last_set = FALSE]
        ELSE w2

\* A motion handler that keeps last_set at a monitor edge.
gd_motion_event_no_edge_reset(w, v, pointer_x, pointer_y, ws, ub) ==
    LET ds  == w.vc[v].ds
        fbw == ScaledSize(ds.width, w.vc[v].scale)
        fbh == ScaledSize(ds.height, w.vc[v].scale)
        x   == ToGuest(pointer_x, Margin(WindowSize, fbw), w.vc[v].scale, ws, ub)
        y   == ToGuest(pointer_y, Margin(WindowSize, fbh), w.vc[v].scale, ws, ub)
        g   == MonitorGeometry
        w1  == IF w.is_absolute
               THEN Emit(Emit(Emit(w,
                        [ev |-> "queue_abs", con |-> v, axis |-> "X", value |-> x,
                         min |-> 0, max |-> ds.width]),
                        [ev |-> "queue_abs", con |-> v, axis |-> "Y", value |-> y,
                         min |-> 0, max |-> ds.height]),
                        [ev |-> "sync"])
               ELSE IF w.s.last_set /\ w.s.ptr_owner = v
               THEN Emit(Emit(Emit(w,
                        [ev |-> "queue_rel", con |-> v, axis |-> "X",
                         value |-> Sub32(x, w.s.last_x)]),
                        [ev |-> "queue_rel", con |-> v, axis |-> "Y",
                         value |-> Sub32(y, w.s.last_y)]),
                        [ev |-> "sync"])
               ELSE w
        w2  == [w1 EXCEPT !.s.last_x = x, !.s.last_y = y, !.s.last_set = TRUE]
    IN  IF ~ds.present THEN w
        ELSE IF w.is_absolute /\ (x < 0 \/ y < 0 \/ x >= ds.width \/ y >= ds.height) THEN w
        ELSE IF /\ ~w2.is_absolute
                /\ w2.s.ptr_owner = v
                /\ \/ pointer_x <= g.x
                   \/ pointer_x - g.x >= g.width - 1
                   \/ pointer_y <= g.y
                   \/ pointer_y - g.y >= g.height - 1
        THEN w2
        ELSE w2

gd_motion_event(w, v, pointer_x, pointer_y, ws, ub) ==
    LET ds  == w.vc[v].ds
        fbw == ScaledSize(ds.width, w.vc[v].scale)
        fbh == ScaledSize(ds.height, w.vc[v].scale)
        x   == ToGuest(pointer_x, Margin(WindowSize, fbw), w.vc[v].scale, ws, ub)
        y   == ToGuest(pointer_y, Margin(WindowSize, fbh), w.vc[v].scale, ws, ub)
        g   == MonitorGeometry
        w1  == IF w.is_absolute
               THEN Emit(Emit(Emit(w,
                        [ev |-> "queue_abs", con |-> v, axis |-> "X", value |-> x,
                         min |-> 0, max |-> ds.width]),
                        [ev |-> "queue_abs", con |-> v, axis |-> "Y", value |-> y,
                         min |-> 0, max |-> ds.height]),
                        [ev |-> "sync"])
               ELSE IF w.s.last_set /\ w.s.ptr_owner = v
               THEN Emit(Emit(Emit(w,
                        [ev |-> "queue_rel", con |-> v, axis |-> "X",
                         value |-> Sub32(x, w.s.last_x)]),
                        [ev |-> "queue_rel", con |-> v, axis |-> "Y",
                         value |-> Sub32(y, w.s.last_y)]),
                        [ev |-> "sync"])
               ELSE w
        w2  == [w1 EXCEPT !.s.last_x = x, !.s.last_y = y, !.s.last_set = TRUE]
    IN  IF ~ds.present THEN w
        ELSE IF w.is_absolute /\ (x < 0 \/ y < 0 \/ x >= ds.width \/ y >= ds.height) THEN w
        ELSE IF /\ ~w2.is_absolute
                /\ w2.s.ptr_owner = v
                /\ \/ pointer_x <= g.x
                   \/ pointer_x - g.x >= g.width - 1
                   \/ pointer_y <= g.y
                   \/ pointer_y - g.y >= g.height - 1
        THEN [w2 EXCEPT !.s.last_set = FALSE]
        ELSE w2

\* gtk4-gfx-vc.c: the scale property and the zoom helpers.
\* The "scale" property is declared with the range VC_SCALE_MIN .. 10.0 and
\* the default 1.0, without a construct flag: g_object_set() drops a value
\* outside the range, and nothing writes the default into the field.  Scales
\* are counted in quarters: 1 is 0.25, 4 is 1.0, 40 is 10.0.
VC_SCALE_MIN == 1
VC_SCALE_STEP == 1
VC_SCALE_MAX == 40

virtual_console_gfx_widget_set_scale(w, v, scale) ==
    queue_draw(IF scale >= VC_SCALE_MIN /\ scale <= VC_SCALE_MAX
               THEN [w EXCEPT !.vc[v].scale = scale]
               ELSE w, v)

virtual_console_gfx_widget_zoom_in(w, v) ==
    virtual_console_gfx_widget_set_scale(w, v, w.vc[v].scale + VC_SCALE_STEP)

virtual_console_gfx_widget_zoom_out(w, v) ==
    LET lower == w.vc[v].scale - VC_SCALE_STEP
    IN  virtual_console_gfx_widget_set_scale(w, v,
            IF lower > VC_SCALE_MIN THEN lower ELSE VC_SCALE_MIN)

on_zoom_in_cb(w) ==
    LET v == gd_vc_find_current(w)
    IN  IF v = NULL THEN w
        ELSE gd_update_windowsize(virtual_console_gfx_widget_zoom_in(w, v), v)

on_zoom_out_cb(w) ==
    LET v == gd_vc_find_current(w)
    IN  IF v = NULL THEN w
        ELSE gd_update_windowsize(virtual_console_gfx_widget_zoom_out(w, v), v)

virtual_console_gfx_widget_reset_zoom(w, v) ==
    virtual_console_gfx_widget_set_scale(w, v, 4)

on_zoom_fixed_cb(w) ==
    LET v == gd_vc_find_current(w)
    IN  IF v = NULL THEN w
        ELSE gd_update_windowsize(virtual_console_gfx_widget_reset_zoom(w, v), v)

\* ----------------------------------------------------------- input actions
\* Pointer positions offered, in window pixels: both monitor edges and the
\* first two columns and rows of a surface shown at scale 1.0.
PointerXs == {0, 3, 4, 7}
PointerYs == {3, 4}
ScaleFactors == {1, 2}

\* A motion event at a position of xs x ys on a surface with a scale factor
\* of wss.
MotionEventFrom(xs, ys, wss) ==
    \E v \in VCs, px \in xs, py \in ys, ws \in wss, ub \in UBInts :
        /\ Visible(v)
        /\ vc[v].scale = 0 \/ ub = 0
        /\ Commit(gd_motion_event(World, v, px, py, ws, ub),
                  [op |-> "gd_motion_event", vc |-> v, x |-> px, y |-> py, ws |-> ws])

MotionEvent == MotionEventFrom(PointerXs, PointerYs, ScaleFactors)

ZoomFixed ==
    /\ gd_vc_find_current(World) # NULL
    /\ Commit(on_zoom_fixed_cb(World), [op |-> "on_zoom_fixed_cb"])

NextInput ==
    \/ MotionEvent
    \/ ZoomFixed
    \/ GfxSwitch
    \/ GrabInput
    \/ MouseModeChange

SpecInput == InitGrab /\ [][NextInput]_vars

\* ================================================================== claims
\* Position of the first observation equal to e, 0 when there is none.
ObsAt(o, e) == IndexOf(o, e)

TraceUngrabPtr(v) == [ev |-> "trace_ungrab", vc |-> v, dev |-> "ptr"]
TraceGrabPtr(v) == [ev |-> "trace_grab", vc |-> v, dev |-> "ptr"]

\* A caption update made while no console owned the pointer lies between the
\* ungrab trace point of a and the grab trace point of b.
UngrabThenGrab(o, a, b) ==
    \E i, j, k \in 1 .. Len(o) :
        /\ i < j /\ j < k
        /\ o[i].ev = "caption" /\ ~o[i].grab /\ o[i].ptr = {}
        /\ o[j] = TraceUngrabPtr(a)
        /\ o[k] = TraceGrabPtr(b)
        /\ \A m \in 1 .. (j - 1) : o[m] # TraceGrabPtr(b)

\* C1: ptr_owner is always NULL or one registered console; whenever the
\* owner moves from a console A to another console B the handler first
\* completes the ungrab of A (owner NULL, caption updated) and only then
\* grabs for B; a relative-mode click on a detached console that is not the
\* owner ends with that console as owner.
C1_OwnerTransferIsUngrabThenGrab ==
    /\ [](s.ptr_owner \in VCs \cup {NULL})
    /\ [][/\ (s.ptr_owner # NULL /\ s'.ptr_owner # NULL /\ s'.ptr_owner # s.ptr_owner)
             => UngrabThenGrab(obs', s.ptr_owner, s'.ptr_owner)
          /\ (/\ call'.op = "gd_button_event"
              /\ call'.button = 1 /\ call'.n_presses = 1
              /\ ~is_absolute /\ vc[call'.vc].window)
             => s'.ptr_owner = call'.vc]_vars

C1_Witness ==
    \E a, b \in VCs :
        /\ a # b
        /\ s.ptr_owner = b
        /\ TraceUngrabPtr(a) \in Range(obs)
        /\ TraceGrabPtr(b) \in Range(obs)

\* C2: when the pointer mode switches to absolute while a console owns the
\* pointer, the grab is released exactly when the owner has no own window.
C2_AbsoluteReleasesIffNoOwnWindow ==
    [][(call'.op = "gd_mouse_mode_change" /\ is_absolute' /\ s.ptr_owner # NULL)
       => ((s'.ptr_owner = NULL) <=> ~vc[s.ptr_owner].window)]_vars

\* The event loop keeps dispatching the callbacks that are pending.
SpecScanoutFair == SpecScanout /\ WF_vars(NextScanout)

BlockSignals(o, c) == {i \in 1 .. Len(o) : o[i] = [ev |-> "gl_block", con |-> c, block |-> TRUE]}

\* C3: a flush that presents a fence-capable dma-buf whose draw was not yet
\* submitted sets draw_submitted and raises the guest block signal exactly
\* once.
C3_FlushSubmitsFenceBufferOnce ==
    [][(/\ call'.op = "scanout_flush"
        /\ vc[call'.vc].guest_fb.dmabuf # NULL
        /\ dmabuf[vc[call'.vc].guest_fb.dmabuf].allow_fences
        /\ ~dmabuf[vc[call'.vc].guest_fb.dmabuf].draw_submitted)
       => /\ dmabuf'[vc[call'.vc].guest_fb.dmabuf].draw_submitted
          /\ Cardinality(BlockSignals(obs', call'.vc)) = 1]_vars

C6_ScanoutTextureSelectsMode ==
    call.op = "scanout_texture"
    => (vc[call.vc].scanout_mode <=> ~(call.backing_id = 0 \/ call.w = 0 \/ call.h = 0))

C6_Witness ==
    /\ call.op = "scanout_texture"
    /\ call.backing_id = 0
    /\ [ev |-> "egl_fb_destroy", vc |-> call.vc] \in Range(obs)
    /\ ~vc[call.vc].scanout_mode

\* C7: outside scanout mode the guest frame buffer holds no texture.
C7_CompositedHasNoGuestTexture ==
    \A c \in VCs :
        ~vc[c].scanout_mode => (vc[c].guest_fb.texture = 0 /\ ~vc[c].guest_fb.framebuffer)

C7_Witness ==
    /\ call.op \in {"scanout_texture", "scanout_disable"}
    /\ [ev |-> "egl_fb_destroy", vc |-> call.vc] \in Range(obs)
    /\ ~vc[call.vc].scanout_mode
    /\ vc[call.vc].guest_fb.texture = 0

\* C8: switchSurface requests a window resize exactly when the width or the
\* height of the new surface differs from the previous surface.
C8_ResizeIffDimensionsChange ==
    [][(call'.op = "switch" /\ vc[call'.vc].ds.present)
       => ((\/ vc[call'.vc].ds.width # vc'[call'.vc].ds.width
            \/ vc[call'.vc].ds.height # vc'[call'.vc].ds.height)
           <=> [ev |-> "update_windowsize", vc |-> call'.vc] \in Range(obs'))]_vars

\* C9: a redraw paints the guest frame buffer in scanout mode and the
\* surface texture in composited mode.
C9_RedrawSourceFollowsMode ==
    call.op = "snapshot"
    => [ev |-> "append_texture",
        from |-> IF vc[call.vc].scanout_mode THEN "guest_fb" ELSE "ds"] \in Range(obs)

\* C10: every flush enqueues a redraw of the console.
C10_FlushQueuesRedraw ==
    call.op = "scanout_flush" => [ev |-> "queue_draw", vc |-> call.vc] \in Range(obs)

\* The guest-surface coordinates of a motion event, defined while the scale
\* is not 0.
GuestX(c, v) ==
    ToGuest(c.x, Margin(WindowSize, ScaledSize(v.ds.width, v.scale)), v.scale, c.ws, 0)

GuestY(c, v) ==
    ToGuest(c.y, Margin(WindowSize, ScaledSize(v.ds.height, v.scale)), v.scale, c.ws, 0)

\* C11: in relative mode a motion event on the pointer owner with last_set
\* true emits the relative axis events x - last_x on X and y - last_y on Y,
\* followed by one sync, and leaves (x, y), the guest-surface coordinates of
\* the event, in last_x and last_y.
C11_RelativeDeltaAgainstLast ==
    [][(/\ call'.op = "gd_motion_event"
        /\ ~is_absolute
        /\ s.last_set
        /\ s.ptr_owner = call'.vc
        /\ vc[call'.vc].ds.present)
       => /\ obs' = << [ev |-> "queue_rel", con |-> call'.vc, axis |-> "X",
                        value |-> Sub32(s'.last_x, s.last_x)],
                       [ev |-> "queue_rel", con |-> call'.vc, axis |-> "Y",
                        value |-> Sub32(s'.last_y, s.last_y)],
                       [ev |-> "sync"] >>
          /\ vc[call'.vc].scale > 0
             => /\ s'.last_x = GuestX(call', vc[call'.vc])
                /\ s'.last_y = GuestY(call', vc[call'.vc])]_vars

C11_Witness ==
    /\ call.op = "gd_motion_event"
    /\ vc[call.vc].scale > 0
    /\ s.ptr_owner = call.vc
    /\ s.last_set
    /\ \E i \in 1 .. Len(obs) : obs[i].ev = "queue_rel" /\ obs[i].axis = "X" /\ obs[i].value > 0
    /\ s.last_x = GuestX(call, vc[call.vc])

\* C12: in absolute mode a motion event whose guest-surface coordinate lies
\* outside [0, width) x [0, height) emits nothing, and every absolute axis
\* event emitted carries a value inside the surface with the range
\* [0, width] on X and [0, height] on Y.
C12_AbsoluteInsideSurfaceOnly ==
    (call.op = "gd_motion_event" /\ is_absolute)
    => LET v == vc[call.vc]
       IN  /\ (/\ v.scale > 0
               /\ v.ds.present
               /\ \/ GuestX(call, v) < 0 \/ GuestX(call, v) >= v.ds.width
                  \/ GuestY(call, v) < 0 \/ GuestY(call, v) >= v.ds.height)
              => obs = <<>>
           /\ \A i \in 1 .. Len(obs) :
                obs[i].ev = "queue_abs"
                => /\ obs[i].min = 0
                   /\ obs[i].value >= 0
                   /\ obs[i].axis = "X" => (obs[i].value < v.ds.width /\ obs[i].max = v.ds.width)
                   /\ obs[i].axis = "Y" => (obs[i].value < v.ds.height /\ obs[i].max = v.ds.height)

C12_Witness ==
    /\ call.op = "gd_motion_event"
    /\ is_absolute
    /\ vc[call.vc].scale > 0
    /\ \E i \in 1 .. Len(obs) : obs[i].ev = "queue_abs" /\ obs[i].axis = "X" /\ obs[i].value > 0

\* C13: gd_ungrab_pointer with no pointer owner changes nothing: both
\* owners, the last pointer position and the consoles stay as they are, no
\* caption is written and no ungrab is traced.
C13_UngrabUnownedIsNoOp ==
    [][(call'.op = "gd_ungrab_pointer" /\ s.ptr_owner = NULL)
       => (s' = s /\ vc' = vc /\ obs' = <<>>)]_vars

C13_Witness ==
    /\ call.op = "gd_ungrab_pointer"
    /\ obs = <<>>
    /\ s.ptr_owner = NULL
    /\ s.kbd_owner # NULL

\* C14: gd_grab_pointer for the console that owns the pointer, and
\* gd_grab_keyboard for the console that owns the keyboard, change nothing
\* and produce no ungrab, no caption and no grab trace.
C14_GrabByOwnerIsIdempotent ==
    [][(\/ call'.op = "gd_grab_pointer" /\ s.ptr_owner = call'.vc
        \/ call'.op = "gd_grab_keyboard" /\ s.kbd_owner = call'.vc)
       => (s' = s /\ vc' = vc /\ obs' = <<>>)]_vars

C14_Witness ==
    /\ call.op = "gd_grab_pointer"
    /\ obs = <<>>
    /\ s.ptr_owner = call.vc
    /\ s.kbd_owner # call.vc

\* C15: the keyboard functions leave ptr_owner alone and the pointer
\* functions leave kbd_owner alone.
C15_OwnersAreIndependent ==
    [][/\ call'.op \in {"gd_grab_keyboard", "gd_ungrab_keyboard"} => s'.ptr_owner = s.ptr_owner
       /\ call'.op \in {"gd_grab_pointer", "gd_ungrab_pointer"} => s'.kbd_owner = s.kbd_owner]_vars

\* The two owners are different consoles, reached by a keyboard ungrab and
\* grab that left the pointer where it was.
C15_Witness ==
    /\ call.op = "gd_grab_keyboard"
    /\ TraceUngrabPtr(s.ptr_owner) \notin Range(obs)
    /\ [ev |-> "trace_ungrab", vc |-> s.ptr_owner, dev |-> "kbd"] \in Range(obs)
    /\ s.ptr_owner # NULL
    /\ s.kbd_owner # NULL
    /\ s.kbd_owner # s.ptr_owner

\* C16: a scanoutDmaBuf whose import yields no texture leaves the mode, the
\* guest frame buffer, the region and the retained dma-buf of the console
\* as they were and raises no block signal.
C16_FailedImportIsNoOp ==
    [][(call'.op = "scanout_dmabuf" /\ dmabuf'[call'.dmabuf].texture = 0)
       => (vc' = vc /\ dmabuf' = dmabuf /\ gl_block' = gl_block /\ obs' = <<>>)]_vars

C16_Witness ==
    /\ call.op = "scanout_dmabuf"
    /\ dmabuf[call.dmabuf].texture = 0
    /\ vc[call.vc].scanout_mode
    /\ vc[call.vc].guest_fb.texture # 0
    /\ vc[call.vc].guest_fb.dmabuf \in DmaBufs \ {call.dmabuf}

\* C17: the number of consoles of the session never exceeds MAX_VCS and
\* vc[] is never used at an index >= MAX_VCS.
C17_ConsolesWithinMaxVcs ==
    /\ reg.ds_nb_vcs <= MAX_VCS
    /\ reg.vc_index_max < MAX_VCS

\* C18: gd_vc_open on a full registry reports "Maximum number of consoles
\* reached" and leaves nb_vcs and vcs[] alone; otherwise it stores the
\* chardev at position nb_vcs, adds one to nb_vcs and defers the OPENED
\* event.
C18_OpenRejectedWhenFull ==
    [][call'.op = "gd_vc_open"
       => IF reg.nb_vcs = MAX_VCS
          THEN /\ obs' = <<[ev |-> "error_setg", msg |-> "Maximum number of consoles reached"]>>
               /\ reg'.nb_vcs = reg.nb_vcs
               /\ reg'.vcs = reg.vcs
          ELSE /\ obs' = <<[ev |-> "be_opened", value |-> FALSE]>>
               /\ reg'.nb_vcs = reg.nb_vcs + 1
               /\ reg'.vcs = Append(reg.vcs, call'.chr)
               /\ reg'.vcs[reg.nb_vcs + 1] = call'.chr]_vars

C18_Witness ==
    /\ call.op = "gd_vc_open"
    /\ reg.nb_vcs = MAX_VCS
    /\ Len(reg.vcs) = MAX_VCS
    /\ call.chr \notin Range(reg.vcs)
    /\ [ev |-> "error_setg", msg |-> "Maximum number of consoles reached"] \in Range(obs)

QueueBtn(o) == {i \in 1 .. Len(o) : o[i].ev = "queue_btn"}

\* C19: in relative mode a left-button single click on a console that is
\* not the pointer owner makes it the owner before the button event is
\* queued, for a console in a tab and for a detached one.
C19_FirstClickGrabsBeforeForward ==
    [][(/\ call'.op = "gd_button_event"
        /\ call'.signal = "pressed"
        /\ call'.button = 1
        /\ call'.n_presses = 1
        /\ ~is_absolute
        /\ s.ptr_owner # call'.vc)
       => /\ s'.ptr_owner = call'.vc
          /\ \E i, j \in 1 .. Len(obs') :
                /\ i < j
                /\ obs'[i] = TraceGrabPtr(call'.vc)
                /\ obs'[j].ev = "queue_btn"]_vars

\* C20: a single press is forwarded with down = true and the matching
\* release with down = false.
C20_ReleaseForwardedAsUp ==
    [][(/\ call'.op = "gd_button_event"
        /\ call'.n_presses = 1
        /\ InputButton(call'.button) # "none")
       => /\ Cardinality(QueueBtn(obs')) = 1
          /\ \A i \in QueueBtn(obs') :
                /\ obs'[i].btn = InputButton(call'.button)
                /\ obs'[i].down = (call'.signal = "pressed")]_vars

\* C21: a button event whose click count is not 1, or whose button number is
\* not one of 1, 2, 3, 8, 9, queues no guest button event and no sync.
C21_OnlySingleClickOfMappedButtonForwarded ==
    [][(/\ call'.op = "gd_button_event"
        /\ (call'.n_presses # 1 \/ InputButton(call'.button) = "none"))
       => /\ QueueBtn(obs') = {}
          /\ [ev |-> "sync"] \notin Range(obs')]_vars

\* ------------------------------------------------- pointer routing actions
\* Relative mode: motion events reach a console in a tab and a detached one
\* while either of them, or neither, owns the pointer.
NextPointer ==
    \/ MotionEvent
    \/ GfxSwitch
    \/ GrabInput
    \/ Untabify

SpecPointer == InitGrab /\ [][NextPointer]_vars

\* The relative axis events among the observations o.
QueueRel(o) == {i \in 1 .. Len(o) : o[i].ev = "queue_rel"}

\* C22: in relative mode a motion event emits relative axis events only on
\* the pointer owner with last_set true, and a motion event on a console
\* that is not the pointer owner emits nothing.
C22_RelativeOnlyFromOwner ==
    [][(call'.op = "gd_motion_event" /\ ~is_absolute)
       => /\ QueueRel(obs') # {} => (s.ptr_owner = call'.vc /\ s.last_set)
          /\ s.ptr_owner # call'.vc => obs' = <<>>]_vars

C22_Witness ==
    /\ call.op = "gd_motion_event"
    /\ ~is_absolute
    /\ s.ptr_owner # NULL
    /\ s.ptr_owner # call.vc
    /\ vc[call.vc].ds.present
    /\ s.last_set
    /\ obs = <<>>

\* The pointer position of a motion event lies within one pixel of an edge
\* of the monitor geometry.
AtMonitorEdge(c) ==
    LET g == MonitorGeometry
    IN  \/ c.x <= g.x
        \/ c.x - g.x >= g.width - 1
        \/ c.y <= g.y
        \/ c.y - g.y >= g.height - 1

\* C23: in relative mode a motion event of the pointer owner within one
\* pixel of a monitor edge clears last_set; nothing but a motion event
\* changes last_set; the motion event that finds last_set cleared emits no
\* relative delta, records its position in last_x and last_y and sets
\* last_set, unless it is itself an edge event of the owner; no step reports
\* an error for the missing pointer warp.
C23_EdgeClearsLastAndNextSendsNoDelta ==
    [][/\ (/\ call'.op = "gd_motion_event"
           /\ ~is_absolute
           /\ s.ptr_owner = call'.vc
           /\ vc[call'.vc].ds.present
           /\ AtMonitorEdge(call'))
          => ~s'.last_set
       /\ call'.op # "gd_motion_event" => s'.last_set = s.last_set
       /\ (/\ call'.op = "gd_motion_event"
           /\ ~is_absolute
           /\ ~s.last_set)
          => /\ QueueRel(obs') = {}
             /\ vc[call'.vc].ds.present
                => /\ s'.last_set <=> ~(s.ptr_owner = call'.vc /\ AtMonitorEdge(call'))
                   /\ vc[call'.vc].scale > 0
                      => /\ s'.last_x = GuestX(call', vc[call'.vc])
                         /\ s'.last_y = GuestY(call', vc[call'.vc])
       /\ \A i \in 1 .. Len(obs') : obs'[i].ev # "error_setg"]_vars

C23_Witness ==
    /\ call.op = "gd_motion_event"
    /\ ~is_absolute
    /\ s.ptr_owner = call.vc
    /\ AtMonitorEdge(call)
    /\ QueueRel(obs) # {}
    /\ vc[call.vc].scale > 0
    /\ s.last_x = GuestX(call, vc[call.vc])
    /\ ~s.last_set

\* ------------------------------------------------------------------ scroll
\* gtk4-gfx-vc.c on_scroll.  The handler is connected with the address of
\* the local variable vc of virtual_console_gfx_widget_constructed as its
\* user data, so the console it reads when it runs is whatever that dead
\* stack slot leads to: con is that value.
WheelButton(direction, delta_x, delta_y) ==
    CASE direction = "UP" -> [vertical |-> "WHEEL_UP", horizontal |-> "none"]
      [] direction = "DOWN" -> [vertical |-> "WHEEL_DOWN", horizontal |-> "none"]
      [] direction = "LEFT" -> [vertical |-> "none", horizontal |-> "WHEEL_LEFT"]
      [] direction = "RIGHT" -> [vertical |-> "none", horizontal |-> "WHEEL_RIGHT"]
      [] OTHER ->
            IF delta_y > 0 THEN [vertical |-> "WHEEL_DOWN", horizontal |-> "none"]
            ELSE IF delta_y < 0 THEN [vertical |-> "WHEEL_UP", horizontal |-> "none"]
            ELSE IF delta_x > 0 THEN [vertical |-> "none", horizontal |-> "WHEEL_RIGHT"]
            ELSE IF delta_x < 0 THEN [vertical |-> "none", horizontal |-> "WHEEL_LEFT"]
            ELSE [vertical |-> "none", horizontal |-> "none"]

PressRelease(w, con, btn) ==
    IF btn = "none" THEN w
    ELSE Emit(Emit(Emit(Emit(w,
            [ev |-> "queue_btn", con |-> con, btn |-> btn, down |-> TRUE]),
            [ev |-> "sync"]),
            [ev |-> "queue_btn", con |-> con, btn |-> btn, down |-> FALSE]),
            [ev |-> "sync"])

on_scroll(w, con, direction, delta_x, delta_y) ==
    LET b == WheelButton(direction, delta_x, delta_y)
    IN  PressRelease(PressRelease(w, con, b.vertical), con, b.horizontal)

ScrollDirections == {"UP", "DOWN", "LEFT", "RIGHT", "SMOOTH"}

\* Signs of the scroll deltas.
Deltas == {-1, 0, 1}

\* Values the read through the dead stack slot can give.
StaleCons == VCs \cup {NULL}

\* A scroll event with a direction of dirs and deltas of ds.
ScrollFrom(dirs, ds) ==
    \E v \in VCs, con \in StaleCons, d \in dirs, dx \in ds, dy \in ds :
        /\ Visible(v)
        /\ Commit(on_scroll(World, con, d, dx, dy),
                  [op |-> "on_scroll", vc |-> v, direction |-> d,
                   delta_x |-> dx, delta_y |-> dy])

Scroll == ScrollFrom(ScrollDirections, Deltas)

NextScroll ==
    \/ Scroll
    \/ Untabify
    \/ TabWindowClose

SpecScroll == InitGrab /\ [][NextScroll]_vars

\* The wheel button the event names: the direction of a discrete event, the
\* sign of delta_y, or of delta_x when delta_y is 0, of a smooth one.
ScrollButton(c) ==
    CASE c.direction = "UP" -> "WHEEL_UP"
      [] c.direction = "DOWN" -> "WHEEL_DOWN"
      [] c.direction = "LEFT" -> "WHEEL_LEFT"
      [] c.direction = "RIGHT" -> "WHEEL_RIGHT"
      [] c.direction = "SMOOTH" /\ c.delta_y > 0 -> "WHEEL_DOWN"
      [] c.direction = "SMOOTH" /\ c.delta_y < 0 -> "WHEEL_UP"
      [] c.direction = "SMOOTH" /\ c.delta_y = 0 /\ c.delta_x > 0 -> "WHEEL_RIGHT"
      [] c.direction = "SMOOTH" /\ c.delta_y = 0 /\ c.delta_x < 0 -> "WHEEL_LEFT"
      [] OTHER -> "none"

\* C24: a scroll event on a console queues, for that console, a press
\* followed by a release of the wheel button the event names, each followed
\* by a sync, and nothing else; a smooth event with both deltas 0 queues
\* nothing.
C24_ScrollIsPressThenRelease ==
    call.op = "on_scroll"
    => obs = IF ScrollButton(call) = "none" THEN <<>>
             ELSE << [ev |-> "queue_btn", con |-> call.vc, btn |-> ScrollButton(call), down |-> TRUE],
                     [ev |-> "sync"],
                     [ev |-> "queue_btn", con |-> call.vc, btn |-> ScrollButton(call), down |-> FALSE],
                     [ev |-> "sync"] >>

\* ----------------------------------------------------------- refresh ticks
\* Several updates of a console between two ticks.
GfxUpdateBurst == GfxUpdateBelow(MaxUpdates + 2)

NextRefresh ==
    \/ GfxSwitch
    \/ GfxUpdateBurst
    \/ Refresh
    \/ ScanoutTexture
    \/ ScanoutDisable

SpecRefresh == Init /\ [][NextRefresh]_vars

QueueDraw(o, c) == {i \in 1 .. Len(o) : o[i] = [ev |-> "queue_draw", vc |-> c]}

\* C25: a refresh tick that finds glupdates > 0 requests exactly one redraw
\* of the console and resets glupdates to 0, whatever the count was; a tick
\* that finds glupdates = 0 requests no redraw.
C25_RefreshCoalescesUpdates ==
    [][call'.op = "refresh"
       => LET c == call'.vc
          IN  /\ vc'[c].glupdates = 0
              /\ Cardinality(QueueDraw(obs', c)) = IF vc[c].glupdates > 0 THEN 1 ELSE 0
              /\ \A u \in VCs \ {c} : QueueDraw(obs', u) = {} /\ vc'[u].glupdates = vc[u].glupdates]_vars

C25_Witness ==
    /\ call.op = "refresh"
    /\ call.glupdates >= 2
    /\ Cardinality(QueueDraw(obs, call.vc)) = 1
    /\ vc[call.vc].glupdates = 0

\* ---------------------------------------------------------------- keyboard
\* gtk4.c: keycode_map and keycode_maplen, set once by
\* early_gtk_display_init, are held in reg under this specification: a
\* display without a table (gd_get_keymap returned NULL, the length stays 0)
\* or one with a table of guint16 codes.
NoKeymap == [keycode_map |-> FALSE, table |-> <<>>, keycode_maplen |-> 0]

Keymap(t) == [keycode_map |-> TRUE, table |-> t, keycode_maplen |-> Len(t)]

Keymaps == {NoKeymap, Keymap(<<30>>), Keymap(<<30, 0, 48>>)}

\* scancode > keycode_maplen with the int converted to size_t: a negative
\* scancode becomes a value above every length.
AboveLen(scancode, maplen) == scancode < 0 \/ scancode > maplen

\* The value of keycode_map[scancode]: the entry, or for an index past the
\* end whatever lies behind the table (ub).
ReadKeycodeMap(r, scancode, ub) ==
    IF scancode < Len(r.table) THEN r.table[scancode + 1] ELSE ub

gd_map_keycode(w, scancode, ub) ==
    IF ~w.reg.keycode_map THEN [w |-> w, qcode |-> 0]
    ELSE IF AboveLen(scancode, w.reg.keycode_maplen) THEN [w |-> w, qcode |-> 0]
    ELSE [w |-> Emit(w, [ev |-> "keycode_map_read", index |-> scancode]),
          qcode |-> ReadKeycodeMap(w.reg, scancode, ub)]

\* gtk4-gfx-vc.c gd_key_event.
gd_key_event(w, v, keyval, keycode, is_press, ub) ==
    IF keyval = "Pause"
    THEN Emit(w, [ev |-> "key_event", con |-> v, qcode |-> "PAUSE", down |-> is_press])
    ELSE LET r == gd_map_keycode(w, keycode, ub)
         IN  Emit(r.w, [ev |-> "key_event", con |-> v, qcode |-> r.qcode, down |-> is_press])

Keyvals == {"Pause", "a"}

\* Hardware keycodes offered: one that is negative as an int, the indices of
\* the longest table, its length and one past it.
Keycodes == -1 .. 4

\* Values an out-of-bounds guint16 read can give.
UBCodes == {0, 65535}

InitKeymap ==
    /\ InitDisplay
    /\ dcl_ops = "gfx_vc"
    /\ reg \in Keymaps

KeyEvent(is_press) ==
    \E v \in VCs, keyval \in Keyvals, keycode \in Keycodes, ub \in UBCodes :
        /\ Visible(v)
        /\ Commit(gd_key_event(World, v, keyval, keycode, is_press, ub),
                  [op |-> "gd_key_event", vc |-> v, keyval |-> keyval,
                   keycode |-> keycode, is_press |-> is_press])

KeyPressed == KeyEvent(TRUE)

KeyReleased == KeyEvent(FALSE)

NextKeymap ==
    \/ KeyPressed
    \/ KeyReleased
    \/ Untabify
    \/ TabWindowClose

SpecKeymap == InitKeymap /\ [][NextKeymap]_vars

\* C26: a key event whose keycode lies outside the loaded table (no table,
\* a negative keycode or keycode >= table length) is forwarded with the
\* code 0 and reads no table entry; every read of the table is at an index
\* below its length; an in-range keycode is forwarded with its table entry.
C26_KeycodeLookupStaysInTable ==
    (call.op = "gd_key_event" /\ call.keyval # "Pause")
    => /\ \A i \in 1 .. Len(obs) :
            /\ obs[i].ev = "keycode_map_read"
               => (obs[i].index >= 0 /\ obs[i].index < Len(reg.table))
            /\ obs[i].ev = "key_event"
               => obs[i].qcode = IF call.keycode >= 0 /\ call.keycode < Len(reg.table)
                                 THEN reg.table[call.keycode + 1]
                                 ELSE 0

\* C27: after a scanout_dmabuf of d whose import succeeded, guest_fb.dmabuf
\* of the console is d when d allows fences and NULL when it does not.
C27_PendingDmaBufOnlyWithFences ==
    (call.op = "scanout_dmabuf" /\ dmabuf[call.dmabuf].texture # 0)
    => vc[call.vc].guest_fb.dmabuf = IF dmabuf[call.dmabuf].allow_fences
                                     THEN call.dmabuf
                                     ELSE NULL

\* C28: a step that takes a console from composited to scanout mode leaves
\* its surface without the composited-path texture; a step that takes it
\* back leaves a surface that is set with a texture; scanout_disable on a
\* console that is not in scanout mode changes nothing.
C28_ModeTransitionsSwapTextureResources ==
    [][\A c \in VCs :
          /\ (~vc[c].scanout_mode /\ vc'[c].scanout_mode) => ~vc'[c].ds.texture
          /\ (vc[c].scanout_mode /\ ~vc'[c].scanout_mode /\ vc'[c].ds.present)
             => vc'[c].ds.texture
          /\ (call'.op = "scanout_disable" /\ call'.vc = c /\ ~vc[c].scanout_mode)
             => (vc' = vc /\ obs' = <<>>)]_vars

\* ------------------------------------------------------------- GL contexts
\* gtk4-gfx-vc.c, the DisplayGLCtxOps of a console.  ok is FALSE when GDK
\* fails to create or realize the context.
gd_gl_area_create_context(w, c, ok) ==
    IF ~ok THEN Emit(w, [ev |-> "error_report", vc |-> c])
    ELSE [w EXCEPT !.vc[c].context = c]

gd_gl_area_make_current(w, c, ctx) ==
    gdk_gl_context_make_current([w EXCEPT !.vc[c].context = ctx], ctx)

gd_gl_area_destroy_context(w, c, ctx) ==
    IF ctx = w.gl_current
    THEN [w EXCEPT !.gl_current = NULL, !.vc[c].context = NULL]
    ELSE w

\* Display events of every console, in any order.
CreateContext ==
    \E c \in VCs, ok \in BOOLEAN :
        Commit(gd_gl_area_create_context(World, c, ok), [op |-> "create_context", vc |-> c])

MakeCurrent ==
    \E c \in VCs :
        /\ vc[c].context = c
        /\ Commit(gd_gl_area_make_current(World, c, c), [op |-> "make_current", vc |-> c])

DestroyContext ==
    \E c \in VCs :
        /\ vc[c].context = c
        /\ Commit(gd_gl_area_destroy_context(World, c, c), [op |-> "destroy_context", vc |-> c])

\* A guest surface of the smallest size and the placeholder.
ContextSurfaces == {sf \in Surfaces : sf.width = 1 /\ sf.height = 1}

ConsoleSwitch ==
    \E c \in VCs, surface \in ContextSurfaces :
        Commit(gd_dpy_gfx_switch(World, c, surface), [op |-> "switch", vc |-> c])

ConsoleUpdate ==
    \E c \in VCs :
        /\ vc[c].ds.present
        /\ vc[c].glupdates < MaxUpdates
        /\ Commit(gd_dpy_gfx_update(World, c), [op |-> "gfx_update", vc |-> c])

ConsoleRefresh ==
    \E c \in VCs :
        Commit(gd_dpy_refresh(World, c),
               [op |-> "refresh", vc |-> c, glupdates |-> vc[c].glupdates])

ConsoleScanoutTexture ==
    \E c \in VCs, id \in TexIds :
        Commit(gd_gl_area_scanout_texture(World, c, id, FALSE, MaxDim, MaxDim,
                                          0, 0, MaxDim, MaxDim),
               [op |-> "scanout_texture", vc |-> c, backing_id |-> id])

NextContext ==
    \/ CreateContext
    \/ MakeCurrent
    \/ DestroyContext
    \/ ConsoleSwitch
    \/ ConsoleUpdate
    \/ ConsoleRefresh
    \/ ConsoleScanoutTexture

SpecContext == InitGrab /\ [][NextContext]_vars

\* C29: every texture update, destroy or create done for a console that has
\* a rendering context runs while that context is the current one.
C29_TextureOpsUnderOwnContext ==
    [][\A i \in 1 .. Len(obs') :
          (obs'[i].ev = "gl_texture_op" /\ vc[obs'[i].vc].context = obs'[i].vc)
          => obs'[i].current = obs'[i].vc]_vars

AnyBackingDims == {0, 1, MaxDim}
AnyRegionDims == {0, 1, MaxDim}

ScanoutTextureAny == ScanoutTextureFrom(AnyBackingDims, AnyRegionDims)

NextProtocol ==
    \/ GfxSwitch
    \/ ScanoutTextureAny
    \/ ScanoutDisable

SpecProtocol == InitGrab /\ [][NextProtocol]_vars

\* The declaration has an empty backing texture, or a region that does not
\* fit into the backing texture.
Anomalous(c) ==
    \/ c.backing_width = 0
    \/ c.backing_height = 0
    \/ c.w > c.backing_width
    \/ c.h > c.backing_height

\* C31: a scanout_texture call with an empty backing texture or a region that
\* does not fit the backing leaves the console in composited mode and
\* reports no error.
C31_AnomalousScanoutDisables ==
    (call.op = "scanout_texture" /\ Anomalous(call))
    => /\ ~vc[call.vc].scanout_mode
       /\ \A i \in 1 .. Len(obs) : obs[i].ev \notin {"error_setg", "error_report"}

\* The consoles that sit in a notebook tab.
Attached == {v \in VCs : ~vc[v].window}

Increasing(q) == \A i, j \in 1 .. Len(q) : i < j => q[i] < q[j]

\* C32: the console menu and the notebook hold exactly the attached
\* consoles, each once and in increasing index order.
C32_MenuAndTabsListAttachedInOrder ==
    /\ Range(s.vc_menu) = Attached
    /\ Increasing(s.vc_menu)
    /\ Range(s.notebook) = Attached
    /\ Increasing(s.notebook)

\* C33: after gd_gl_area_destroy_context for the context of a console, that
\* context is neither the current one nor the one stored in vc->gfx.context,
\* and the next texture update of the console does not make it current.
C33_DestroyedContextIsForgotten ==
    [][/\ call'.op = "destroy_context"
          => (gl_current' # call'.vc /\ vc'[call'.vc].context # call'.vc)
       /\ (call.op = "destroy_context" /\ call'.op = "gfx_update" /\ call'.vc = call.vc)
          => gl_current' # call.vc]_vars

\* ------------------------------------------------------------ input router
\* The three pointer handlers of a console widget together: clicks, motion
\* inside the monitor and at its right edge, discrete and smooth scrolling.
RouterMotion == MotionEventFrom({4, 7}, {3}, {1})

RouterScroll == ScrollFrom({"UP", "SMOOTH"}, {0, 1})

NextRouter ==
    \/ ButtonPress
    \/ ButtonRelease
    \/ RouterMotion
    \/ RouterScroll
    \/ GfxSwitch
    \/ GrabInput
    \/ MouseModeChange

SpecRouter == InitGrab /\ [][NextRouter]_vars

QueueEvents == {"queue_btn", "queue_abs", "queue_rel"}

Syncs(o) == {i \in 1 .. Len(o) : o[i].ev = "sync"}

\* C34: whatever a pointer handler queued is followed by a sync before the
\* handler returns, the last thing a handler that queued anything does is a
\* sync, and the X and Y events of a motion are followed by one sync, with
\* none between them.
C34_QueuedEventsAreSynced ==
    call.op \in {"gd_button_event", "gd_motion_event", "on_scroll"}
    => /\ \A i \in 1 .. Len(obs) :
            obs[i].ev \in QueueEvents => \E j \in Syncs(obs) : j > i
       /\ (\E i \in 1 .. Len(obs) : obs[i].ev \in QueueEvents) => obs[Len(obs)].ev = "sync"
       /\ call.op = "gd_motion_event"
          => (obs = <<>> \/ (/\ Len(obs) = 3
                             /\ obs[1].ev \in {"queue_abs", "queue_rel"}
                             /\ obs[1].axis = "X"
                             /\ obs[2].ev = obs[1].ev
                             /\ obs[2].axis = "Y"
                             /\ Syncs(obs) = {3}))

C34_Witness ==
    /\ call.op = "gd_motion_event"
    /\ Len(obs) = 3
    /\ obs[1].ev = "queue_rel"
    /\ obs[2].ev = "queue_rel"
    /\ obs[3].ev = "sync"

\* C35: after release_dmabuf of d no console holds d in guest_fb.dmabuf, and
\* a flush that follows the release leaves d alone.
C35_ReleasedDmaBufIsNotPending ==
    [][/\ call'.op = "release_dmabuf"
          => \A c \in VCs : vc'[c].guest_fb.dmabuf # call'.dmabuf
       /\ (call.op = "release_dmabuf" /\ call'.op = "scanout_flush")
          => dmabuf'[call.dmabuf] = dmabuf[call.dmabuf]]_vars

\* ------------------------------------------------- two consoles with surfaces
\* Every console may get a surface, whatever the state of the others.
GfxSwitchAny ==
    \E c \in VCs, surface \in Surfaces :
        Commit(gd_dpy_gfx_switch(World, c, surface), [op |-> "switch", vc |-> c])

\* Motion away from the monitor edges.
InnerMotion == MotionEventFrom({3, 4}, {3}, {1})

NextDelta ==
    \/ GfxSwitchAny
    \/ ZoomFixed
    \/ InnerMotion
    \/ GrabInput
    \/ Untabify

SpecDelta == InitGrab /\ [][NextDelta]_vars

\* C36: a relative delta on the pointer owner is never computed against a
\* position that the preceding motion event recorded on another console, and
\* a change of pointer owner right after a motion event on another console
\* does not leave last_set true.
C36_DeltaAgainstOwnPosition ==
    [][(/\ call.op = "gd_motion_event"
        /\ vc[call.vc].ds.present
        /\ ~is_absolute
        /\ s.last_set)
       => /\ (call'.op = "gd_motion_event" /\ call'.vc # call.vc)
             => QueueRel(obs') = {}
          /\ (s'.ptr_owner # s.ptr_owner /\ s'.ptr_owner \notin {NULL, call.vc})
             => ~s'.last_set]_vars

\* C37: the grab-input action state is true exactly when a console that is
\* not detached owns the pointer.
C37_GrabActionMirrorsPointerOwner ==
    s.grab_input <=> (s.ptr_owner # NULL /\ ~vc[s.ptr_owner].window)

\* --------------------------------------------------------------- tab switch
\* gtk_notebook_set_current_page(): a negative or out-of-range page number
\* selects the last page; switch-page runs when the page shown changes.
notebook_set_current_page(w, page) ==
    LET n == Len(w.s.notebook)
        p == IF page < 0 \/ page >= n THEN n - 1 ELSE page
    IN  IF n = 0 \/ p = w.s.cur_page THEN w
        ELSE gd_change_page([w EXCEPT !.s.cur_page = p], p)

\* "vc" action handler: the parameter is the label of console v.
on_switch_vc_cb(w, v) == notebook_set_current_page(w, PageNum(w, v))

SwitchVC ==
    \E v \in VCs : Commit(on_switch_vc_cb(World, v), [op |-> "on_switch_vc_cb", vc |-> v])

NextTabs ==
    \/ SwitchVC
    \/ GrabInput
    \/ WinGrab
    \/ MouseModeChange
    \/ Untabify
    \/ TabWindowClose

SpecTabs == InitGrab /\ [][NextTabs]_vars

\* C38: a console that is not detached and owns the pointer or the keyboard
\* is the console of the page shown; after a switch to another page the
\* console shown before owns neither.
C38_TabbedOwnerIsCurrentPage ==
    \A v \in VCs :
        (~vc[v].window /\ (s.ptr_owner = v \/ s.kbd_owner = v))
        => gd_vc_find_current(World) = v

\* --------------------------------------------------------------------- zoom
ZoomIn ==
    /\ gd_vc_find_current(World) # NULL
    /\ Commit(on_zoom_in_cb(World), [op |-> "on_zoom_in_cb"])

ZoomOut ==
    /\ gd_vc_find_current(World) # NULL
    /\ Commit(on_zoom_out_cb(World), [op |-> "on_zoom_out_cb"])

NextZoom ==
    \/ ZoomIn
    \/ ZoomOut
    \/ ZoomFixed
    \/ GfxSwitch
    \/ InnerMotion

SpecZoom == InitGrab /\ [][NextZoom]_vars

\* C39: the scale of a graphics widget is at least VC_SCALE_MIN in every
\* state, before any zoom operation too, so a motion event on a console with
\* a surface never divides by a scale of zero.
C39_ScaleAtLeastMinimum ==
    (call.op = "gd_motion_event" /\ vc[call.vc].ds.present)
    => vc[call.vc].scale >= VC_SCALE_MIN

\* ----------------------------------------------------------- terminal input
\* Bytes typed over a session of the model.
MaxTyped == 5

Min(a, b) == IF a < b THEN a ELSE b

fifo8_num_used(fifo) == fifo.num

fifo8_num_free(fifo) == fifo.capacity - fifo.num

\* fifo8_push_all(): the bytes go behind the used ones, wrapping at the end.
fifo8_push_all(fifo, buf) ==
    [fifo EXCEPT
        !.data = [i \in 0 .. (fifo.capacity - 1) |->
                    IF \E k \in 1 .. Len(buf) : (fifo.head + fifo.num + k - 1) % fifo.capacity = i
                    THEN buf[CHOOSE k \in 1 .. Len(buf) :
                                 (fifo.head + fifo.num + k - 1) % fifo.capacity = i]
                    ELSE fifo.data[i]],
        !.num = @ + Len(buf)]

\* fifo8_pop_buf(): at most max bytes, and no more than lie before the end
\* of the ring; the caller gets the bytes and their number.
fifo8_pop_buf(fifo, max) ==
    LET size == Min(fifo.capacity - fifo.head, max)
    IN  [fifo |-> [fifo EXCEPT !.head = (@ + size) % fifo.capacity, !.num = @ - size],
         buf  |-> [k \in 1 .. size |-> fifo.data[fifo.head + k - 1]]]

\* qemu_chr_be_write(): the backend takes the bytes.
qemu_chr_be_write(w, buf, can_write) ==
    Emit([w EXCEPT !.vte.delivered = @ \o buf],
         [ev |-> "chr_be_write", buf |-> buf, can_write |-> can_write])

\* The k-th answer of qemu_chr_be_can_write() during one call; the loop asks
\* once more than it writes, and it writes at most capacity times.
CanWrite(replies, k) == IF k <= Len(replies) THEN replies[k] ELSE 0

\* A sender that ignores the room the backend reported.
RECURSIVE send_loop_ignore_room(_, _, _, _, _)
send_loop_ignore_room(w, len, avail, replies, k) ==
    IF len > 0 /\ avail > 0
    THEN LET p  == fifo8_pop_buf(w.vte.out_fifo, avail)
             w1 == qemu_chr_be_write([w EXCEPT !.vte.out_fifo = p.fifo], p.buf, len)
         IN  send_loop_ignore_room(w1, CanWrite(replies, k + 1), avail - Len(p.buf), replies, k + 1)
    ELSE w

gd_vc_send_chars_ignore_room(w, replies) ==
    send_loop_ignore_room(w, CanWrite(replies, 1), fifo8_num_used(w.vte.out_fifo), replies, 1)

\* The while loop of gd_vc_send_chars.
RECURSIVE send_loop(_, _, _, _, _)
send_loop(w, len, avail, replies, k) ==
    IF len > 0 /\ avail > 0
    THEN LET p  == fifo8_pop_buf(w.vte.out_fifo, Min(len, avail))
             w1 == qemu_chr_be_write([w EXCEPT !.vte.out_fifo = p.fifo], p.buf, len)
         IN  send_loop(w1, CanWrite(replies, k + 1), avail - Len(p.buf), replies, k + 1)
    ELSE w

gd_vc_send_chars(w, replies) ==
    send_loop(w, CanWrite(replies, 1), fifo8_num_used(w.vte.out_fifo), replies, 1)

gd_vc_chr_accept_input(w, replies) == gd_vc_send_chars(w, replies)

gd_vc_chr_set_echo(w, echo) == [w EXCEPT !.vte.echo = echo]

\* "commit" handler of the terminal: size bytes typed, named typed + 1 ..
\* typed + size.  With echo on every byte is fed back to the terminal.
gd_vc_in(w, size, replies) ==
    LET text == [k \in 1 .. size |-> w.vte.typed + k]
        w1   == IF w.vte.echo THEN Emit(w, [ev |-> "vte_terminal_feed", text |-> text]) ELSE w
        free == fifo8_num_free(w1.vte.out_fifo)
        w2   == [w1 EXCEPT !.vte.out_fifo = fifo8_push_all(@, SubSeq(text, 1, Min(free, size))),
                           !.vte.typed = @ + size]
    IN  gd_vc_send_chars(w2, replies)

\* Answers of the backend: no room up to room for all the FIFO can hold.
Rooms == 0 .. FifoCapacity

\* One answer to the first question of a call and one to all later ones.
Replies == {[k \in 1 .. FifoCapacity |-> IF k = 1 THEN a ELSE b] : a, b \in Rooms}

\* The user types one byte to one byte more than the FIFO holds.
VcIn ==
    \E size \in 1 .. (FifoCapacity + 1), replies \in Replies :
        /\ vte.typed + size <= MaxTyped
        /\ Commit(gd_vc_in(World, size, replies),
                  [op |-> "gd_vc_in", size |-> size, replies |-> replies])

VcAcceptInput ==
    \E replies \in Replies :
        Commit(gd_vc_chr_accept_input(World, replies),
               [op |-> "gd_vc_chr_accept_input", replies |-> replies])

VcSetEcho ==
    \E echo \in BOOLEAN :
        Commit(gd_vc_chr_set_echo(World, echo), [op |-> "gd_vc_chr_set_echo", echo |-> echo])

NextTerminal ==
    \/ VcIn
    \/ VcAcceptInput
    \/ VcSetEcho

SpecTerminal == InitGrab /\ [][NextTerminal]_vars

\* The writes to the character backend among the observations o.
BeWrites(o) == {i \in 1 .. Len(o) : o[i].ev = "chr_be_write"}

\* C40: the out FIFO never holds more than its capacity and typed input that
\* does not fit is dropped; the bytes delivered to the backend are typed
\* bytes in typing order, none twice; no write is longer than the room the
\* backend reported; and accept_input sends queued bytes as far as the
\* backend's first answer allows.
C40_TerminalInputIsBoundedLossyFifo ==
    [][/\ vte'.out_fifo.num <= vte'.out_fifo.capacity
       /\ call'.op = "gd_vc_in"
          => Len(vte'.delivered) + vte'.out_fifo.num
             = Len(vte.delivered) + Min(vte.out_fifo.capacity, vte.out_fifo.num + call'.size)
       /\ Increasing(vte'.delivered)
       /\ Range(vte'.delivered) \subseteq 1 .. vte'.typed
       /\ \A i \in BeWrites(obs') : Len(obs'[i].buf) <= obs'[i].can_write
       /\ call'.op = "gd_vc_chr_accept_input"
          => Len(vte'.delivered) - Len(vte.delivered)
             >= Min(Min(vte.out_fifo.num, call'.replies[1]),
                    vte.out_fifo.capacity - vte.out_fifo.head)]_vars

C40_Witness ==
    /\ call.op = "gd_vc_chr_accept_input"
    /\ Len(vte.delivered) >= 2
    /\ vte.typed > Len(vte.delivered) + vte.out_fifo.num
    /\ BeWrites(obs) # {}

====
